---- MODULE Spec2Model ----
(***************************************************************************)
(* Model of the polynomial package of gomathpro                            *)
(* (ParsePolynomial, FindRoots, findRootsDurandKerner, Factorize,          *)
(* Interpolate).                                                           *)
(*                                                                         *)
(* Strings are sequences of one-character strings.  float64 values are     *)
(* modelled by exact numbers where the code's arithmetic can be followed   *)
(* exactly: a parsed decimal literal is an integer number of 1/Scale       *)
(* units, a closed-form root is the exact real (a + b*sqrt(d))/q together  *)
(* with the sign of a zero, the values of Interpolate are integers and     *)
(* fractions of any magnitude.                                             *)
(* The iterates of findRootsDurandKerner are fixed-point complex numbers   *)
(* with a NaN.                                                             *)
(***************************************************************************)
EXTENDS Integers, Sequences, FiniteSets, TLC

VARIABLES
    pc,            \* position of the running call
    polyStr,       \* ParsePolynomial: the argument
    parseRes,      \* ParsePolynomial: the returned (coefficients, err)
    coefficients,  \* FindRoots, Factorize: the argument
    rootsRes,      \* FindRoots: the returned (roots, err)
    factRes,       \* Factorize: the returned (factors, err)
    roots,         \* findRootsDurandKerner: the candidate roots
    updated,       \* findRootsDurandKerner: the candidates of the running round
    iter,          \* findRootsDurandKerner: the rounds completed
    idx,           \* findRootsDurandKerner: the candidate to update next (from 0)
    converged,     \* findRootsDurandKerner: the verdict of the last check
    points,        \* Interpolate: the argument
    interpRes,     \* Interpolate: the returned (coefficients, err)
    variables,     \* evaluator: the package-level map of user-defined variables
    expression,    \* Evaluate: the argument
    statements,    \* Evaluate: the statements of the argument
    stmtIdx,       \* Evaluate: the statement the loop is at (from 1)
    result,        \* Evaluate: the local variable result
    evalRes,       \* Evaluate: the returned (result, err) of the last call
    calls,         \* the calls of Evaluate made so far
    args           \* rootsCmd, factorizeCmd: the command-line arguments

parseVars == <<polyStr, parseRes>>
polyVars == <<coefficients, rootsRes, factRes>>
dkVars == <<roots, updated, iter, idx, converged>>
interpVars == <<points, interpRes>>
evalVars ==
    <<variables, expression, statements, stmtIdx, result, evalRes, calls>>
vars == <<pc, parseVars, polyVars, dkVars, interpVars, evalVars, args>>

\* a nil slice
Nil == <<>>
\* a nil error
NoError == "nil"

(***************************************************************************)
(* Bounds                                                                  *)
(***************************************************************************)
\* longest polynomial string enumerated exhaustively
MaxLen == 4

RECURSIVE Pow10(_)
Pow10(n) == IF n = 0 THEN 1 ELSE 10 * Pow10(n - 1)

\* one unit of a parsed number is 1/Scale; a literal of an input string has at
\* most MaxLen - 1 fractional digits, so every literal is a whole number of units
FracDigits == MaxLen - 1
Scale == Pow10(FracDigits)

Digits == {"0", "1", "2", "3", "4", "5", "6", "7", "8", "9"}
Signs == {"+", "-"}

\* characters of the exhaustively enumerated strings
Alphabet == {"+", "-", "0", "1", "2", ".", "x", "^", "a", " "}

\* the inputs of TestParsePolynomial and further longer inputs
LongInputs ==
    { <<"x", "^", "2", " ", "-", " ", "5", "x", " ", "+", " ", "6">>,
      <<"x", "^", "3", " ", "-", " ", "6", "x", "^", "2", " ", "+", " ", "1", "1", "x", " ", "-", " ", "6">>,
      <<"-", "3", "x", "^", "2">>,
      <<"x", " ", "+", " ", "2", "x">>,
      <<"2", "x", "+", "1">>,
      <<"x", "^", "0", "+", "x">>,
      <<"x", "x", "^", "0">>,
      <<"x", "^", "2", "x">>,
      <<"1", ".", "2", ".", "3">>,
      <<"a", "b", "c">>,
      <<"x", "^", "+", "1">>,
      <<"1", ".", "5", "x", "^", "2", "-", ".", "5", "x">>,
      <<"x", "\t", "+", "1">>,
      <<"2", "x", " ", "+", "\n", "1">>,
      <<"\t", "a">> }

PolyStrings == (UNION {[1..n -> Alphabet] : n \in 0..MaxLen}) \cup LongInputs

(***************************************************************************)
(* String helpers (package strings, strconv)                               *)
(***************************************************************************)
\* strings.ReplaceAll(s, " ", "")
RemoveSpaces(s) == SelectSeq(s, LAMBDA c : c # " ")

RECURSIVE Join(_)
\* strings.Join(terms, "")
Join(terms) == IF terms = <<>> THEN <<>> ELSE Head(terms) \o Join(Tail(terms))

\* index of the first occurrence of character c in s, 0 when absent
IndexOf(s, c) ==
    IF \E k \in 1..Len(s) : s[k] = c
    THEN CHOOSE k \in 1..Len(s) : s[k] = c /\ \A j \in 1..(k - 1) : s[j] # c
    ELSE 0

\* strings.Contains(term, "x^")
ContainsXCaret(s) == \E k \in 1..(Len(s) - 1) : s[k] = "x" /\ s[k + 1] = "^"

\* strings.Contains(term, "x")
ContainsX(s) == \E k \in 1..Len(s) : s[k] = "x"

DigitVal(c) ==
    CASE c = "0" -> 0 [] c = "1" -> 1 [] c = "2" -> 2 [] c = "3" -> 3
      [] c = "4" -> 4 [] c = "5" -> 5 [] c = "6" -> 6 [] c = "7" -> 7
      [] c = "8" -> 8 [] c = "9" -> 9

RECURSIVE DigitsValue(_)
\* value of a string of decimal digits
DigitsValue(s) ==
    IF s = <<>> THEN 0
    ELSE 10 * DigitsValue(SubSeq(s, 1, Len(s) - 1)) + DigitVal(s[Len(s)])

AllDigits(s) == \A k \in 1..Len(s) : s[k] \in Digits

\* strconv.Atoi: [ok, val]
Atoi(s) ==
    LET body == IF s # <<>> /\ s[1] \in Signs THEN Tail(s) ELSE s
        neg == s # <<>> /\ s[1] = "-"
    IN  IF body = <<>> \/ ~AllDigits(body)
        THEN [ok |-> FALSE, val |-> 0]
        ELSE [ok |-> TRUE,
              val |-> IF neg THEN 0 - DigitsValue(body) ELSE DigitsValue(body)]

\* strconv.ParseFloat(s, 64) on a decimal literal: [ok, val], val in 1/Scale
ParseFloat(s) ==
    LET body == IF s # <<>> /\ s[1] \in Signs THEN Tail(s) ELSE s
        neg == s # <<>> /\ s[1] = "-"
        dot == IndexOf(body, ".")
        ip == IF dot = 0 THEN body ELSE SubSeq(body, 1, dot - 1)
        fp == IF dot = 0 THEN <<>> ELSE SubSeq(body, dot + 1, Len(body))
        mag == DigitsValue(ip) * Scale
               + DigitsValue(fp) * Pow10(FracDigits - Len(fp))
    IN  IF ~AllDigits(ip) \/ ~AllDigits(fp) \/ (ip = <<>> /\ fp = <<>>)
        THEN [ok |-> FALSE, val |-> 0]
        ELSE [ok |-> TRUE, val |-> IF neg THEN 0 - mag ELSE mag]

(***************************************************************************)
(* termRegex: ([+-]?\d*\.?\d*x\^?\d*|[-+]?\d*\.?\d+), leftmost-first       *)
(***************************************************************************)
RECURSIVE DigitRun(_, _)
\* first position at or after p that holds no digit (greedy \d*)
DigitRun(s, p) ==
    IF p <= Len(s) /\ s[p] \in Digits THEN DigitRun(s, p + 1) ELSE p

At(s, p, c) == p <= Len(s) /\ s[p] = c

SkipSign(s, p) == IF p <= Len(s) /\ s[p] \in Signs THEN p + 1 ELSE p

\* first alternative at p: position after the match, 0 when it does not match
MatchVarTerm(s, p) ==
    LET p1 == SkipSign(s, p)
        p2 == DigitRun(s, p1)
        p3 == IF At(s, p2, ".") THEN p2 + 1 ELSE p2
        p4 == DigitRun(s, p3)
        p5 == p4 + 1
        p6 == IF At(s, p5, "^") THEN p5 + 1 ELSE p5
    IN  IF At(s, p4, "x") THEN DigitRun(s, p6) ELSE 0

\* second alternative at p: position after the match, 0 when it does not match
MatchNumTerm(s, p) ==
    LET p1 == SkipSign(s, p)
        p2 == DigitRun(s, p1)
    IN  IF At(s, p2, ".") /\ p2 + 1 <= Len(s) /\ s[p2 + 1] \in Digits
        THEN DigitRun(s, p2 + 1)
        ELSE IF p2 > p1 THEN p2 ELSE 0

\* the regex at p: the first alternative wins when both match
MatchTerm(s, p) ==
    IF MatchVarTerm(s, p) # 0 THEN MatchVarTerm(s, p) ELSE MatchNumTerm(s, p)

RECURSIVE FindAllFrom(_, _)
FindAllFrom(s, p) ==
    IF p > Len(s) THEN <<>>
    ELSE LET e == MatchTerm(s, p)
         IN  IF e = 0 THEN FindAllFrom(s, p + 1)
             ELSE <<SubSeq(s, p, e - 1)>> \o FindAllFrom(s, e)

\* termRegex.FindAllString(s, -1)
FindAllString(s) == FindAllFrom(s, 1)

(***************************************************************************)
(* ParsePolynomial                                                         *)
(***************************************************************************)
RECURSIVE SplitChar(_, _)
\* strings.Split(s, c) for a one-character separator
SplitChar(s, c) ==
    LET k == IndexOf(s, c)
    IN  IF k = 0 THEN <<s>>
        ELSE <<SubSeq(s, 1, k - 1)>> \o SplitChar(SubSeq(s, k + 1, Len(s)), c)

IndexXCaret(s) ==
    IF ContainsXCaret(s)
    THEN CHOOSE k \in 1..(Len(s) - 1) :
            /\ s[k] = "x" /\ s[k + 1] = "^"
            /\ \A j \in 1..(k - 1) : ~(s[j] = "x" /\ s[j + 1] = "^")
    ELSE 0

RECURSIVE SplitXCaret(_)
\* strings.Split(s, "x^")
SplitXCaret(s) ==
    LET k == IndexXCaret(s)
    IN  IF k = 0 THEN <<s>>
        ELSE <<SubSeq(s, 1, k - 1)>> \o SplitXCaret(SubSeq(s, k + 2, Len(s)))

\* strings.TrimSuffix(s, "x")
TrimSuffixX(s) ==
    IF s # <<>> /\ s[Len(s)] = "x" THEN SubSeq(s, 1, Len(s) - 1) ELSE s

Max(a, b) == IF a > b THEN a ELSE b

RECURSIVE HighestDegree(_, _)
\* first loop: the highest degree of the terms, from maxDegree = m;
\* [err, val]
HighestDegree(terms, m) ==
    IF terms = <<>> THEN [err |-> NoError, val |-> m]
    ELSE LET term == Head(terms)
             parts == SplitChar(term, "^")
             degree == Atoi(parts[2])
         IN  IF ContainsXCaret(term)
             THEN IF Len(parts) # 2
                  THEN [err |-> "invalid term", val |-> 0]
                  ELSE IF ~degree.ok
                  THEN [err |-> "invalid degree in term", val |-> 0]
                  ELSE HighestDegree(Tail(terms), Max(m, degree.val))
             ELSE IF ContainsX(term)
             THEN HighestDegree(Tail(terms), Max(m, 1))
             ELSE HighestDegree(Tail(terms), m)

\* coeffStr with the defaults of a variable term
DefaultCoeff(coeffStr) ==
    IF coeffStr = <<>> \/ coeffStr = <<"+">> THEN <<"1">>
    ELSE IF coeffStr = <<"-">> THEN <<"-", "1">>
    ELSE coeffStr

\* coefficients[degree] = coeff: the slot is overwritten, not added to
AddAtOverwrite(cs, degree, coeff) ==
    [cs EXCEPT ![degree + 1] = coeff]

\* coefficients[degree] += coeff (slot degree is index degree + 1 here)
AddAt(cs, degree, coeff) ==
    [cs EXCEPT ![degree + 1] = @ + coeff]

RECURSIVE Accumulate(_, _)
\* second loop: add every term into its slot; [err, coeffs]
Accumulate(terms, cs) ==
    IF terms = <<>> THEN [err |-> NoError, coeffs |-> cs]
    ELSE LET term == Head(terms)
         IN  IF term = <<>> THEN Accumulate(Tail(terms), cs)
             ELSE IF ContainsXCaret(term)
             THEN LET parts == SplitXCaret(term)
                      coeff == ParseFloat(DefaultCoeff(parts[1]))
                      degree == Atoi(parts[2])
                  IN  IF ~coeff.ok
                      THEN [err |-> "invalid coefficient in term", coeffs |-> Nil]
                      ELSE IF ~degree.ok
                      THEN [err |-> "invalid degree in term", coeffs |-> Nil]
                      ELSE Accumulate(Tail(terms),
                                      AddAt(cs, degree.val, coeff.val))
             ELSE IF ContainsX(term)
             THEN LET coeff == ParseFloat(DefaultCoeff(TrimSuffixX(term)))
                  IN  IF ~coeff.ok
                      THEN [err |-> "invalid coefficient in term", coeffs |-> Nil]
                      ELSE Accumulate(Tail(terms),
                                      AddAt(cs, 1, coeff.val))
             ELSE LET coeff == ParseFloat(term)
                  IN  IF ~coeff.ok
                      THEN [err |-> "invalid constant term", coeffs |-> Nil]
                      ELSE Accumulate(Tail(terms),
                                      AddAt(cs, 0, coeff.val))

\* ParsePolynomial without the comparison of the joined terms with the input
ParsePolynomialNoJoinCheck(str) ==
    LET s == RemoveSpaces(str)
        terms == FindAllString(s)
        maxDegree == HighestDegree(terms, 0)
    IN  IF Len(terms) = 0
        THEN [err |-> "invalid polynomial format", coeffs |-> Nil]
        ELSE IF maxDegree.err # NoError
        THEN [err |-> maxDegree.err, coeffs |-> Nil]
        ELSE Accumulate(terms, [k \in 1..(maxDegree.val + 1) |-> 0])

\* ParsePolynomial(polyStr): [err, coeffs]
ParsePolynomial(str) ==
    LET s == RemoveSpaces(str)
        terms == FindAllString(s)
        maxDegree == HighestDegree(terms, 0)
    IN  IF Len(terms) = 0
        THEN [err |-> "invalid polynomial format", coeffs |-> Nil]
        ELSE IF Join(terms) # s
        THEN [err |-> "invalid polynomial format: extra/unmatched text",
              coeffs |-> Nil]
        ELSE IF maxDegree.err # NoError
        THEN [err |-> maxDegree.err, coeffs |-> Nil]
        ELSE Accumulate(terms, [k \in 1..(maxDegree.val + 1) |-> 0])

(***************************************************************************)
(* Specification of ParsePolynomial: one call on any of the inputs         *)
(***************************************************************************)
\* the variables of the calls a specification does not make
IdleParse == polyStr = <<>> /\ parseRes = [err |-> NoError, coeffs |-> Nil]
IdlePoly ==
    /\ coefficients = <<>>
    /\ rootsRes = [err |-> NoError, roots |-> Nil]
    /\ factRes = [err |-> NoError, factors |-> Nil]
IdleDK ==
    /\ roots = Nil
    /\ updated = Nil
    /\ iter = 0
    /\ idx = 0
    /\ converged = FALSE
IdleInterp == points = <<>> /\ interpRes = [err |-> NoError, coeffs |-> Nil]
\* var variables = make(map[string]interface{}), and no call of Evaluate
IdleEval ==
    /\ variables = <<>>
    /\ expression = <<>>
    /\ statements = <<>>
    /\ stmtIdx = 0
    /\ result = Nil
    /\ evalRes = [result |-> Nil, err |-> NoError]
    /\ calls = 0
IdleCmd == args = <<>>

InitParse ==
    /\ pc = "call"
    /\ polyStr \in PolyStrings
    /\ parseRes = [err |-> NoError, coeffs |-> Nil]
    /\ IdlePoly
    /\ IdleDK
    /\ IdleInterp
    /\ IdleEval
    /\ IdleCmd

CallParsePolynomial ==
    /\ pc = "call"
    /\ parseRes' = ParsePolynomial(polyStr)
    /\ pc' = "done"
    /\ UNCHANGED <<polyStr, polyVars, dkVars, interpVars, evalVars, args>>

NextParse == CallParsePolynomial

SpecParse == InitParse /\ [][NextParse]_vars

ParseDone == pc = "done"
Accepted == ParseDone /\ parseRes.err = NoError
Rejected == ParseDone /\ parseRes.err # NoError /\ parseRes.coeffs = Nil

\* the terms matched in the space-stripped input
MatchedTerms == FindAllString(RemoveSpaces(polyStr))

\* C1: ParsePolynomial returns a format error and no coefficients whenever no
\* term is matched in the space-stripped input, or the matched terms joined
\* in order differ from the space-stripped input, or a matched term ends in
\* '^' with no digits after it; "", "abc", "x^" and "^2" are rejected.
C1_MalformedRejected ==
    ParseDone =>
        /\ (\/ MatchedTerms = <<>>
            \/ Join(MatchedTerms) # RemoveSpaces(polyStr)
            \/ \E k \in 1..Len(MatchedTerms) :
                    MatchedTerms[k][Len(MatchedTerms[k])] = "^")
           => Rejected
        /\ polyStr \in {<<>>, <<"a", "b", "c">>, <<"x", "^">>, <<"^", "2">>}
           => Rejected

\* a term with a dangling '^' between matched terms that join to the input
C1_Witness ==
    /\ ParseDone
    /\ polyStr = <<"x", "^", "+", "1">>
    /\ MatchedTerms = << <<"x", "^">>, <<"+", "1">> >>
    /\ parseRes = [err |-> "invalid degree in term", coeffs |-> Nil]

(***************************************************************************)
(* The terms as the data model describes them: a sign, an optional         *)
(* magnitude and an optional power of the variable                         *)
(***************************************************************************)
TermHasVar(t) == \E k \in 1..Len(t) : t[k] = "x"
TermHasExp(t) == \E k \in 1..Len(t) : t[k] = "^"
TermExp(t) == DigitsValue(SubSeq(t, IndexOf(t, "^") + 1, Len(t)))
TermDegree(t) ==
    IF TermHasExp(t) THEN TermExp(t) ELSE IF TermHasVar(t) THEN 1 ELSE 0
TermNegative(t) == t[1] = "-"
\* the magnitude: the digits and dot after the sign and before the variable
TermMagnitude(t) ==
    LET from == IF t[1] \in Signs THEN 2 ELSE 1
        to == IF TermHasVar(t) THEN IndexOf(t, "x") - 1 ELSE Len(t)
    IN  SubSeq(t, from, to)
TermCoefficient(t) ==
    LET mag == IF TermHasVar(t) /\ TermMagnitude(t) = <<>> THEN Scale
               ELSE ParseFloat(TermMagnitude(t)).val
    IN  IF TermNegative(t) THEN 0 - mag ELSE mag

RECURSIVE SumOfDegree(_, _)
\* the sum of the signed coefficients of the terms of degree k
SumOfDegree(terms, k) ==
    IF terms = <<>> THEN 0
    ELSE (IF TermDegree(Head(terms)) = k THEN TermCoefficient(Head(terms)) ELSE 0)
         + SumOfDegree(Tail(terms), k)

SetMax(S) == CHOOSE m \in S : \A n \in S : n <= m

\* the degree as C2 words it: the maximum explicit exponent, or 1 if only
\* bare-x terms carry the variable, or 0 if there is no variable term
DegreeAsClaimed(terms) ==
    LET exps == {TermExp(terms[k]) : k \in {j \in 1..Len(terms) : TermHasExp(terms[j])}}
    IN  IF exps # {} THEN SetMax(exps)
        ELSE IF \E k \in 1..Len(terms) : TermHasVar(terms[k]) THEN 1
        ELSE 0

\* the maximum of the degrees of the terms, a bare-x term having degree 1
DegreeOfTerms(terms) == SetMax({TermDegree(terms[k]) : k \in 1..Len(terms)})

VectorIs(d) ==
    /\ Len(parseRes.coeffs) = d + 1
    /\ \A k \in 0..d : parseRes.coeffs[k + 1] = SumOfDegree(MatchedTerms, k)

\* C2 as stated: for every accepted input the vector has length d + 1, d the
\* maximum explicit exponent (or 1 if only bare-x terms carry the variable,
\* or 0 without a variable term), and slot k is the sum of the signed
\* coefficients of the terms of degree k.
C2_AsStated == Accepted => VectorIs(DegreeAsClaimed(MatchedTerms))

\* C2 amended: for every accepted input the vector has length d + 1, d the
\* largest degree of any term (the explicit exponent, 1 for a bare-x term, 0
\* for a constant), and slot k is the sum of the signed coefficients of the
\* terms of degree k, a variable term without magnitude counting +1 or -1;
\* "x + 2x" gives [0, 3] and "x^2 - 5x + 6" gives [6, -5, 1].
C2_VectorOfTerms ==
    Accepted =>
        /\ VectorIs(DegreeOfTerms(MatchedTerms))
        /\ polyStr = <<"x", " ", "+", " ", "2", "x">>
           => parseRes.coeffs = <<0, 3 * Scale>>
        /\ polyStr = <<"x", "^", "2", " ", "-", " ", "5", "x", " ", "+", " ", "6">>
           => parseRes.coeffs = <<6 * Scale, (0 - 5) * Scale, Scale>>

\* two terms of degree 1 (one bare, one with a magnitude) and one of degree 2
C2_Witness ==
    /\ Accepted
    /\ polyStr = <<"1", ".", "5", "x", "^", "2", "-", ".", "5", "x">>
    /\ parseRes.coeffs = <<0, 0 - (Scale \div 2), Scale + (Scale \div 2)>>

(***************************************************************************)
(* float64 values of the closed forms: the exact real (a + b*sqrt(d))/q,   *)
(* q # 0, d >= 0, and nz, the sign bit of a zero (IEEE 754 negative zero)  *)
(***************************************************************************)
Sgn(n) == IF n > 0 THEN 1 ELSE IF n < 0 THEN 0 - 1 ELSE 0
AbsInt(n) == IF n < 0 THEN 0 - n ELSE n

\* the sign of A + B*sqrt(d)
SignSurd(A, B, d) ==
    IF B = 0 \/ d = 0 THEN Sgn(A)
    ELSE IF A = 0 THEN Sgn(B)
    ELSE IF Sgn(A) = Sgn(B) THEN Sgn(A)
    ELSE Sgn(A) * Sgn(A * A - B * B * d)

RSign(x) == SignSurd(x.a, x.b, x.d) * Sgn(x.q)
RIsZero(x) == RSign(x) = 0
\* math.Signbit
RSignBit(x) == RSign(x) < 0 \/ (RIsZero(x) /\ x.nz)

\* float64(n) of an integer n
RInt(n) == [a |-> n, b |-> 0, d |-> 0, q |-> 1, nz |-> FALSE]

\* -x
RNeg(x) ==
    [a |-> 0 - x.a, b |-> 0 - x.b, d |-> x.d, q |-> x.q,
     nz |-> RIsZero(x) /\ ~x.nz]

\* x + y (at most one radicand between them); a zero sum is -0 only when
\* both operands are -0
RAdd(x, y) ==
    LET sum == [a |-> x.a * y.q + y.a * x.q,
                b |-> x.b * y.q + y.b * x.q,
                d |-> IF x.b # 0 THEN x.d ELSE y.d,
                q |-> x.q * y.q,
                nz |-> FALSE]
    IN  [sum EXCEPT !.nz = RIsZero(sum) /\ RSignBit(x) /\ RSignBit(y)]

\* x - y
RSub(x, y) == RAdd(x, RNeg(y))

\* x / y for a rational y # 0; a zero quotient has the sign of x xor y
RDiv(x, y) ==
    [a |-> x.a * y.q, b |-> x.b * y.q, d |-> x.d, q |-> x.q * y.a,
     nz |-> RIsZero(x) /\ (RSignBit(x) # RSignBit(y))]

\* math.Sqrt(n) of an integer n >= 0
RSqrt(n) == [a |-> 0, b |-> 1, d |-> n, q |-> 1, nz |-> FALSE]

\* x > y
RGt(x, y) == RSign(RSub(x, y)) > 0
\* x == y
REq(x, y) == RSign(RSub(x, y)) = 0

\* complex(re, im)
Complex(re, im) == [re |-> re, im |-> im]

RECURSIVE IsqrtBetween(_, _, _)
\* the k in lo..hi with k*k <= n < (k+1)*(k+1), by bisection
IsqrtBetween(n, lo, hi) ==
    IF lo = hi THEN lo
    ELSE LET mid == (lo + hi + 1) \div 2
         IN  IF mid * mid <= n THEN IsqrtBetween(n, mid, hi)
             ELSE IsqrtBetween(n, lo, mid - 1)

\* floor(sqrt(n))
Isqrt(n) == IsqrtBetween(n, 0, IF n < 46340 THEN n ELSE 46340)

\* floor(B*sqrt(d))
FloorSurd(B, d) ==
    LET n == B * B * d
        r == Isqrt(n)
    IN  IF B >= 0 THEN r ELSE IF r * r = n THEN 0 - r ELSE 0 - (r + 1)

\* |x| in hundredths, rounded to nearest, an exact tie to even: the digits
\* that fmt's %.2f prints
Hundredths(x) ==
    LET s == IF RSign(x) < 0 THEN 0 - 1 ELSE 1
        t == Sgn(x.q) * s
        A == 200 * t * x.a
        B == 200 * t * x.b
        Q == AbsInt(x.q)
        \* |x| * 200 = (A + B*sqrt(d)) / Q
        surd == FloorSurd(B, x.d)
        twice == (A + surd) \div Q
        exact == surd * surd = B * B * x.d /\ (A + surd) % Q = 0
        down == twice \div 2
    IN  IF twice % 2 = 0 THEN down
        ELSE IF exact /\ down % 2 = 0 THEN down
        ELSE down + 1

\* fmt.Sprintf("%.2f", x): the sign and the digits
FormatFloat2(x) == [neg |-> RSignBit(x), hundredths |-> Hundredths(x)]

\* fmt.Sprintf("(x - %.2f)", root)
FactorString(root) == <<"(x - ", FormatFloat2(root), ")">>

(***************************************************************************)
(* FindRoots (closed forms) and Factorize                                  *)
(***************************************************************************)
\* discriminant := c1*c1 - 4*c2*c0
Discriminant(c0, c1, c2) == c1 * c1 - 4 * c2 * c0

\* case 2 of FindRoots, the root without its minus sign
LinearRootsUnsigned(c0, c1) ==
    IF c1 = 0
    THEN [err |-> "invalid linear polynomial (coefficient of x cannot be zero)",
          roots |-> Nil]
    ELSE [err |-> NoError,
          roots |-> <<Complex(RDiv(RInt(c0), RInt(c1)), RInt(0))>>]

\* case 2 of FindRoots
LinearRoots(c0, c1) ==
    IF c1 = 0
    THEN [err |-> "invalid linear polynomial (coefficient of x cannot be zero)",
          roots |-> Nil]
    ELSE [err |-> NoError,
          roots |-> <<Complex(RDiv(RNeg(RInt(c0)), RInt(c1)), RInt(0))>>]

\* case 3 of FindRoots, returning the root with the minus sign first
QuadraticRootsSwapped(c0, c1, c2) ==
    LET discriminant == Discriminant(c0, c1, c2)
        sqrtDisc == RSqrt(discriminant)
        root1 == RDiv(RAdd(RNeg(RInt(c1)), sqrtDisc), RInt(2 * c2))
        root2 == RDiv(RSub(RNeg(RInt(c1)), sqrtDisc), RInt(2 * c2))
        realPart == RDiv(RNeg(RInt(c1)), RInt(2 * c2))
        imagPart == RDiv(RSqrt(0 - discriminant), RInt(2 * c2))
    IN  IF c2 = 0
        THEN [err |-> "invalid quadratic polynomial (coefficient of x^2 cannot be zero)",
              roots |-> Nil]
        ELSE IF discriminant < 0
        THEN [err |-> NoError,
              roots |-> <<Complex(realPart, RNeg(imagPart)),
                          Complex(realPart, imagPart)>>]
        ELSE [err |-> NoError,
              roots |-> <<Complex(root2, RInt(0)), Complex(root1, RInt(0))>>]

\* case 3 of FindRoots
QuadraticRoots(c0, c1, c2) ==
    LET discriminant == Discriminant(c0, c1, c2)
        sqrtDisc == RSqrt(discriminant)
        root1 == RDiv(RAdd(RNeg(RInt(c1)), sqrtDisc), RInt(2 * c2))
        root2 == RDiv(RSub(RNeg(RInt(c1)), sqrtDisc), RInt(2 * c2))
        realPart == RDiv(RNeg(RInt(c1)), RInt(2 * c2))
        imagPart == RDiv(RSqrt(0 - discriminant), RInt(2 * c2))
    IN  IF c2 = 0
        THEN [err |-> "invalid quadratic polynomial (coefficient of x^2 cannot be zero)",
              roots |-> Nil]
        ELSE IF discriminant < 0
        THEN [err |-> NoError,
              roots |-> <<Complex(realPart, imagPart),
                          Complex(realPart, RNeg(imagPart))>>]
        ELSE [err |-> NoError,
              roots |-> <<Complex(root1, RInt(0)), Complex(root2, RInt(0))>>]

\* Factorize that treats a negative discriminant like a non-negative one
FactorizeNoComplexCheck(cs) ==
    IF Len(cs) = 0
    THEN [err |-> "no coefficients provided", factors |-> Nil]
    ELSE IF Len(cs) > 3
    THEN [err |-> "factorization is only supported for linear and quadratic polynomials",
          factors |-> Nil]
    ELSE IF Len(cs) = 2
    THEN IF cs[2] = 0
         THEN [err |-> "invalid linear polynomial (coefficient of x cannot be zero)",
               factors |-> Nil]
         ELSE [err |-> NoError,
               factors |-> <<FactorString(RDiv(RNeg(RInt(cs[1])), RInt(cs[2])))>>]
    ELSE IF Len(cs) = 3
    THEN LET discriminant == Discriminant(cs[1], cs[2], cs[3])
             sqrtDisc == RSqrt(AbsInt(discriminant))
             r1 == RDiv(RAdd(RNeg(RInt(cs[2])), sqrtDisc), RInt(2 * cs[3]))
             r2 == RDiv(RSub(RNeg(RInt(cs[2])), sqrtDisc), RInt(2 * cs[3]))
         IN  IF cs[3] = 0
             THEN [err |-> "invalid quadratic polynomial (coefficient of x^2 cannot be zero)",
                   factors |-> Nil]
             ELSE IF RGt(r1, r2)
             THEN [err |-> NoError,
                   factors |-> <<FactorString(r2), FactorString(r1)>>]
             ELSE [err |-> NoError,
                   factors |-> <<FactorString(r1), FactorString(r2)>>]
    ELSE [err |-> "unsupported polynomial degree", factors |-> Nil]

\* Factorize(coefficients): [err, factors]
Factorize(cs) ==
    IF Len(cs) = 0
    THEN [err |-> "no coefficients provided", factors |-> Nil]
    ELSE IF Len(cs) > 3
    THEN [err |-> "factorization is only supported for linear and quadratic polynomials",
          factors |-> Nil]
    ELSE IF Len(cs) = 2
    THEN IF cs[2] = 0
         THEN [err |-> "invalid linear polynomial (coefficient of x cannot be zero)",
               factors |-> Nil]
         ELSE [err |-> NoError,
               factors |-> <<FactorString(RDiv(RNeg(RInt(cs[1])), RInt(cs[2])))>>]
    ELSE IF Len(cs) = 3
    THEN LET discriminant == Discriminant(cs[1], cs[2], cs[3])
             sqrtDisc == RSqrt(discriminant)
             r1 == RDiv(RAdd(RNeg(RInt(cs[2])), sqrtDisc), RInt(2 * cs[3]))
             r2 == RDiv(RSub(RNeg(RInt(cs[2])), sqrtDisc), RInt(2 * cs[3]))
         IN  IF cs[3] = 0
             THEN [err |-> "invalid quadratic polynomial (coefficient of x^2 cannot be zero)",
                   factors |-> Nil]
             ELSE IF discriminant < 0
             THEN [err |-> "cannot factorize polynomial with complex roots",
                   factors |-> Nil]
             ELSE IF RGt(r1, r2)
             THEN [err |-> NoError,
                   factors |-> <<FactorString(r2), FactorString(r1)>>]
             ELSE [err |-> NoError,
                   factors |-> <<FactorString(r1), FactorString(r2)>>]
    ELSE [err |-> "unsupported polynomial degree", factors |-> Nil]

(***************************************************************************)
(* complex128 values of findRootsDurandKerner: fixed-point numbers of Unit *)
(* units per 1 in both parts, or NaN.  A part beyond Limit units stands    *)
(* for a float64 overflow: in evaluatePolynomial an overflowed power is    *)
(* multiplied by complex(coeff, 0), whose zero imaginary part turns the    *)
(* infinity into NaN, so an overflow is NaN here.                          *)
(***************************************************************************)
Unit == 64
Limit == 4000

CNaN == [nan |-> TRUE, re |-> 0, im |-> 0]

CFix(re, im) ==
    IF AbsInt(re) <= Limit /\ AbsInt(im) <= Limit
    THEN [nan |-> FALSE, re |-> re, im |-> im]
    ELSE CNaN

\* complex(float64(n), 0)
CInt(n) == CFix(n * Unit, 0)

CAdd(z, w) ==
    IF z = CNaN \/ w = CNaN THEN CNaN ELSE CFix(z.re + w.re, z.im + w.im)

CSub(z, w) ==
    IF z = CNaN \/ w = CNaN THEN CNaN ELSE CFix(z.re - w.re, z.im - w.im)

CMul(z, w) ==
    IF z = CNaN \/ w = CNaN THEN CNaN
    ELSE CFix((z.re * w.re - z.im * w.im) \div Unit,
              (z.re * w.im + z.im * w.re) \div Unit)

\* z / w; a division by zero gives infinite or NaN parts
CDiv(z, w) ==
    IF z = CNaN \/ w = CNaN THEN CNaN
    ELSE LET den == w.re * w.re + w.im * w.im
         IN  IF den = 0 THEN CNaN
             ELSE CFix(((z.re * w.re + z.im * w.im) * Unit) \div den,
                       ((z.im * w.re - z.re * w.im) * Unit) \div den)

RECURSIVE CPow(_, _)
\* cmplx.Pow(x, complex(float64(k), 0)) for an integer k >= 0
CPow(x, k) == IF k = 0 THEN CInt(1) ELSE CMul(CPow(x, k - 1), x)

\* the convergence threshold 1e-10, in units
Tolerance == 1

\* cmplx.Abs(z) >= 1e-10
ExceedsOrMeetsTolerance(z) ==
    z # CNaN /\ z.re * z.re + z.im * z.im >= Tolerance * Tolerance

\* cmplx.Abs(z) > 1e-10: false for NaN
ExceedsTolerance(z) ==
    z # CNaN /\ z.re * z.re + z.im * z.im > Tolerance * Tolerance

\* cmplx.Rect(1, 2*math.Pi*float64(k)/float64(n)) for n = 3 and n = 4
UnitCirclePoint(k, n) ==
    LET half == Unit \div 2
        sin60 == Isqrt(3 * Unit * Unit) \div 2
    IN  IF n = 3
        THEN CASE k = 0 -> CFix(Unit, 0)
               [] k = 1 -> CFix(0 - half, sin60)
               [] k = 2 -> CFix(0 - half, 0 - sin60)
        ELSE CASE k = 0 -> CFix(Unit, 0)
               [] k = 1 -> CFix(0, Unit)
               [] k = 2 -> CFix(0 - Unit, 0)
               [] k = 3 -> CFix(0, 0 - Unit)

RECURSIVE EvalUpTo(_, _, _)
\* result after the terms of slice indices 1..k of evaluatePolynomial's loop
EvalUpTo(cs, x, k) ==
    IF k = 0 THEN CFix(0, 0)
    ELSE CAdd(EvalUpTo(cs, x, k - 1), CMul(CInt(cs[k]), CPow(x, k - 1)))

\* evaluatePolynomial(coefficients, x)
evaluatePolynomial(cs, x) == EvalUpTo(cs, x, Len(cs))

RECURSIVE DenominatorUpTo(_, _, _)
\* denominator after the candidates of slice indices 1..j: the product of
\* (rs[i] - rs[k]) over k # i
DenominatorUpTo(rs, i, j) ==
    IF j = 0 THEN CInt(1)
    ELSE IF j = i THEN DenominatorUpTo(rs, i, j - 1)
    ELSE CMul(DenominatorUpTo(rs, i, j - 1), CSub(rs[i], rs[j]))

\* the new value of candidate i (a slice index, from 1) computed from the
\* candidates rs
NewCandidate(cs, rs, i) ==
    CSub(rs[i], CDiv(evaluatePolynomial(cs, rs[i]), DenominatorUpTo(rs, i, Len(rs))))

\* the rounds of the iteration
MaxIter == 1000

(***************************************************************************)
(* Specification of FindRoots and Factorize: FindRoots is called on a      *)
(* coefficient vector, then Factorize on the same vector                   *)
(***************************************************************************)
\* coefficients of the vectors of length 0..3 range over -MaxCoef..MaxCoef
MaxCoef == 3
\* coefficients of the vectors of length 4 range over -MaxDKCoef..MaxDKCoef
MaxDKCoef == 1

Coefs == (0 - MaxCoef)..MaxCoef
DKCoefs == (0 - MaxDKCoef)..MaxDKCoef

ShortVectors == UNION {[1..n -> Coefs] : n \in 0..3}

\* further vectors of length 4 and 5: leading coefficients other than 1 and
\* -1, and quartics
LongVectors ==
    { <<0 - 1, 0, 0, 1>>, <<0 - 1, 0, 0, 2>>, <<0, 0 - 1, 0, 2>>,
      <<1, 1, 0, 2>>, <<0 - 2, 0, 1, 1>>, <<0, 0, 0, 0 - 1>>,
      <<1, 1, 0, 0>>, <<0, 1, 0, 0>>,
      <<0 - 1, 0, 0, 0, 1>>, <<0, 0 - 1, 0, 0, 1>>, <<1, 0, 0, 0, 2>>,
      <<0, 1, 0, 0 - 1, 1>> }

DKVectors == [1..4 -> DKCoefs] \cup LongVectors

InitCall ==
    /\ pc = "call"
    /\ rootsRes = [err |-> NoError, roots |-> Nil]
    /\ factRes = [err |-> NoError, factors |-> Nil]
    /\ IdleDK
    /\ IdleParse
    /\ IdleInterp
    /\ IdleEval
    /\ IdleCmd

InitPoly ==
    /\ coefficients \in ShortVectors \cup LongVectors
    /\ InitCall

InitDK ==
    /\ coefficients \in DKVectors
    /\ InitCall

\* FindRoots and findRootsDurandKerner without the return for n < 1
CallFindRootsNoDegreeCheck ==
    /\ pc = "call"
    /\ IF Len(coefficients) = 0
       THEN /\ rootsRes' = [err |-> "no coefficients provided", roots |-> Nil]
            /\ pc' = "roots_done"
            /\ UNCHANGED dkVars
       ELSE IF Len(coefficients) = 2
       THEN /\ rootsRes' = LinearRoots(coefficients[1], coefficients[2])
            /\ pc' = "roots_done"
            /\ UNCHANGED dkVars
       ELSE IF Len(coefficients) = 3
       THEN /\ rootsRes' = QuadraticRoots(coefficients[1], coefficients[2],
                                          coefficients[3])
            /\ pc' = "roots_done"
            /\ UNCHANGED dkVars
       ELSE /\ roots' = [k \in 1..(Len(coefficients) - 1) |->
                            UnitCirclePoint(k - 1, Len(coefficients) - 1)]
            /\ iter' = 0
            /\ pc' = "dk_loop"
            /\ UNCHANGED <<rootsRes, updated, idx, converged>>
    /\ UNCHANGED <<coefficients, factRes, parseVars, interpVars, evalVars, args>>

\* FindRoots up to its return or its call of findRootsDurandKerner, and
\* findRootsDurandKerner up to its loop
CallFindRoots ==
    /\ pc = "call"
    /\ IF Len(coefficients) = 0
       THEN /\ rootsRes' = [err |-> "no coefficients provided", roots |-> Nil]
            /\ pc' = "roots_done"
            /\ UNCHANGED dkVars
       ELSE IF Len(coefficients) = 2
       THEN /\ rootsRes' = LinearRoots(coefficients[1], coefficients[2])
            /\ pc' = "roots_done"
            /\ UNCHANGED dkVars
       ELSE IF Len(coefficients) = 3
       THEN /\ rootsRes' = QuadraticRoots(coefficients[1], coefficients[2],
                                          coefficients[3])
            /\ pc' = "roots_done"
            /\ UNCHANGED dkVars
       ELSE IF Len(coefficients) - 1 < 1
       THEN /\ rootsRes' = [err |-> NoError, roots |-> Nil]
            /\ pc' = "roots_done"
            /\ UNCHANGED dkVars
       ELSE /\ roots' = [k \in 1..(Len(coefficients) - 1) |->
                            UnitCirclePoint(k - 1, Len(coefficients) - 1)]
            /\ iter' = 0
            /\ pc' = "dk_loop"
            /\ UNCHANGED <<rootsRes, updated, idx, converged>>
    /\ UNCHANGED <<coefficients, factRes, parseVars, interpVars, evalVars, args>>

\* the loop without its bound of 1000 rounds
DKLoopUnbounded ==
    /\ pc = "dk_loop"
    /\ updated' = [k \in 1..Len(roots) |-> CFix(0, 0)]
    /\ idx' = 0
    /\ pc' = "dk_update"
    /\ UNCHANGED <<roots, iter, converged, polyVars, parseVars, interpVars, evalVars, args>>

\* for iter := 0; iter < 1000; iter++ { updated := make([]complex128, n) ...
DKLoop ==
    /\ pc = "dk_loop"
    /\ IF iter < MaxIter
       THEN /\ updated' = [k \in 1..Len(roots) |-> CFix(0, 0)]
            /\ idx' = 0
            /\ pc' = "dk_update"
       ELSE /\ pc' = "dk_return"
            /\ UNCHANGED <<updated, idx>>
    /\ UNCHANGED <<roots, iter, converged, polyVars, parseVars, interpVars, evalVars, args>>

\* the update of one candidate written into roots itself, so that the later
\* candidates of the round read it
DKUpdateInPlace ==
    /\ pc = "dk_update"
    /\ updated' = [updated EXCEPT ![idx + 1] =
                        NewCandidate(coefficients, roots, idx + 1)]
    /\ roots' = [roots EXCEPT ![idx + 1] =
                        NewCandidate(coefficients, roots, idx + 1)]
    /\ idx' = idx + 1
    /\ pc' = IF idx + 1 < Len(roots) THEN "dk_update" ELSE "dk_check"
    /\ UNCHANGED <<iter, converged, polyVars, parseVars, interpVars, evalVars, args>>

\* one pass of the loop over the candidates: updated[i] = roots[i] - ...
DKUpdate ==
    /\ pc = "dk_update"
    /\ updated' = [updated EXCEPT ![idx + 1] =
                        NewCandidate(coefficients, roots, idx + 1)]
    /\ idx' = idx + 1
    /\ pc' = IF idx + 1 < Len(roots) THEN "dk_update" ELSE "dk_check"
    /\ UNCHANGED <<roots, iter, converged, polyVars, parseVars, interpVars, evalVars, args>>

\* the convergence check, then break or roots = updated and iter++
DKCheck ==
    /\ pc = "dk_check"
    /\ converged' = \A k \in 1..Len(roots) :
                        ~ExceedsTolerance(CSub(updated[k], roots[k]))
    /\ IF converged'
       THEN /\ pc' = "dk_return"
            /\ UNCHANGED <<roots, iter>>
       ELSE /\ roots' = updated
            /\ iter' = iter + 1
            /\ pc' = "dk_loop"
    /\ UNCHANGED <<updated, idx, polyVars, parseVars, interpVars, evalVars, args>>

\* return roots, and FindRoots returns them with a nil error
DKReturn ==
    /\ pc = "dk_return"
    /\ rootsRes' = [err |-> NoError, roots |-> roots]
    /\ pc' = "roots_done"
    /\ UNCHANGED <<coefficients, factRes, dkVars, parseVars, interpVars, evalVars, args>>

CallFactorize ==
    /\ pc = "roots_done"
    /\ factRes' = Factorize(coefficients)
    /\ pc' = "done"
    /\ UNCHANGED <<coefficients, rootsRes, dkVars, parseVars, interpVars, evalVars, args>>

NextPoly ==
    \/ CallFindRoots
    \/ DKLoop
    \/ DKUpdate
    \/ DKCheck
    \/ DKReturn
    \/ CallFactorize

SpecPoly == InitPoly /\ [][NextPoly]_vars
SpecDK == InitDK /\ [][NextPoly]_vars

(***************************************************************************)
(* Properties of FindRoots and Factorize                                   *)
(***************************************************************************)
RootsReturned == pc \in {"roots_done", "done"}
FactorizeReturned == pc = "done"

\* the real (a + b*sqrt(d))/q
Surd(a, b, d, q) == [a |-> a, b |-> b, d |-> d, q |-> q, nz |-> FALSE]

ErrorKind(err) ==
    CASE err = "no coefficients provided" -> "EmptyInputError"
      [] err = "factorization is only supported for linear and quadratic polynomials"
            -> "UnsupportedDegreeError"
      [] err = "unsupported polynomial degree" -> "UnsupportedDegreeError"
      [] err = "invalid linear polynomial (coefficient of x cannot be zero)"
            -> "DegenerateCoefficientError"
      [] err = "invalid quadratic polynomial (coefficient of x^2 cannot be zero)"
            -> "DegenerateCoefficientError"
      [] err = "cannot factorize polynomial with complex roots" -> "ComplexRootError"
      [] OTHER -> "none"

\* C7: Factorize returns an error and no factors, in this order of checks:
\* empty vector (EmptyInputError); length > 3 (UnsupportedDegreeError,
\* whatever the coefficients); length 2 or 3 with highest coefficient 0
\* (DegenerateCoefficientError); length 3, c2 # 0, c1^2 - 4*c2*c0 < 0
\* (ComplexRootError).  Every other vector of length 2 or 3 gives factors
\* and no error.
C7_FactorizeErrors ==
    LET c == coefficients
        L == Len(c)
        D == c[2] * c[2] - 4 * c[3] * c[1]
        kind == ErrorKind(factRes.err)
    IN  FactorizeReturned =>
        /\ factRes.err # NoError => factRes.factors = Nil /\ kind # "none"
        /\ IF L = 0 THEN kind = "EmptyInputError"
           ELSE IF L > 3 THEN kind = "UnsupportedDegreeError"
           ELSE IF L \in {2, 3} /\ c[L] = 0 THEN kind = "DegenerateCoefficientError"
           ELSE IF L = 3 /\ D < 0 THEN kind = "ComplexRootError"
           ELSE IF L \in {2, 3}
           THEN factRes.err = NoError /\ Len(factRes.factors) = L - 1
           ELSE TRUE

\* a vector of length 4 with leading coefficient 0: unsupported, not degenerate
C7_Witness ==
    /\ FactorizeReturned
    /\ coefficients = <<1, 1, 0, 0>>
    /\ ErrorKind(factRes.err) = "UnsupportedDegreeError"
    /\ factRes.factors = Nil

\* the number a factor "(x - r)" prints for r, in hundredths
FactorValue(f) == IF f[2].neg THEN 0 - f[2].hundredths ELSE f[2].hundredths

\* a real rounded to hundredths
RoundedValue(x) == RSign(x) * Hundredths(x)

\* C8 (as stated): on [c0, c1, c2], c2 # 0, with a non-negative discriminant
\* Factorize returns exactly two factors "(x - r)" with the smaller root
\* first, and the same factor twice when the discriminant is 0; on [c0, c1],
\* c1 # 0, exactly one factor with r = -c0/c1.
C8_AsStated ==
    LET c == coefficients
        f == factRes.factors
        D == c[2] * c[2] - 4 * c[3] * c[1]
    IN  FactorizeReturned =>
        /\ (Len(c) = 3 /\ c[3] # 0 /\ D >= 0) =>
              /\ factRes.err = NoError
              /\ Len(f) = 2
              /\ FactorValue(f[1]) <= FactorValue(f[2])
              /\ D = 0 => f[1] = f[2]
        /\ (Len(c) = 2 /\ c[2] # 0) =>
              /\ factRes.err = NoError
              /\ Len(f) = 1
              /\ FactorValue(f[1]) = RoundedValue(Surd(0 - c[1], 0, 0, c[2]))

\* C8 without the requirement that a zero discriminant gives the same
\* factor string twice: the two printed numbers are equal
C8_UpToSignOfZero ==
    LET c == coefficients
        f == factRes.factors
        D == c[2] * c[2] - 4 * c[3] * c[1]
    IN  FactorizeReturned =>
        /\ (Len(c) = 3 /\ c[3] # 0 /\ D >= 0) =>
              /\ factRes.err = NoError
              /\ Len(f) = 2
              /\ FactorValue(f[1]) <= FactorValue(f[2])
              /\ D = 0 => FactorValue(f[1]) = FactorValue(f[2])
        /\ (Len(c) = 2 /\ c[2] # 0) =>
              /\ factRes.err = NoError
              /\ Len(f) = 1
              /\ FactorValue(f[1]) = RoundedValue(Surd(0 - c[1], 0, 0, c[2]))

Range(seq) == {seq[k] : k \in 1..Len(seq)}
\* the multiset of the elements of a sequence
BagOfSeq(seq) ==
    [v \in Range(seq) |-> Cardinality({k \in 1..Len(seq) : seq[k] = v})]

\* C9: on every vector of length 2 or 3 Factorize succeeds exactly when
\* FindRoots succeeds and every root has imaginary part 0, and then the
\* multiset of the numbers r of the factors "(x - r)" equals the multiset of
\* the real parts of the roots, rounded to two decimals.
C9_FactorizeAgreesWithFindRoots ==
    LET r == rootsRes.roots
        f == factRes.factors
    IN  (FactorizeReturned /\ Len(coefficients) \in {2, 3}) =>
        /\ factRes.err = NoError
           <=> /\ rootsRes.err = NoError
               /\ \A k \in 1..Len(r) : RIsZero(r[k].im)
        /\ factRes.err = NoError =>
              BagOfSeq([k \in 1..Len(f) |-> FactorValue(f[k])])
                = BagOfSeq([k \in 1..Len(r) |-> RoundedValue(r[k].re)])

\* x^2 - 2: FindRoots returns +sqrt(2) then -sqrt(2), Factorize the factors
\* of -1.41 then 1.41
C9_Witness ==
    /\ FactorizeReturned
    /\ coefficients = <<0 - 2, 0, 1>>
    /\ factRes.err = NoError
    /\ FactorValue(factRes.factors[1]) = 0 - 141
    /\ FactorValue(factRes.factors[2]) = 141
    /\ RSign(rootsRes.roots[1].re) > 0

(***************************************************************************)
(* Properties of findRootsDurandKerner                                     *)
(***************************************************************************)
\* an upper bound of the steps FindRoots still takes before it returns
StepsLeft ==
    LET round == Len(roots) + 2
    IN  CASE pc = "call" -> MaxIter * (Len(coefficients) + 1) + 3
          [] pc = "dk_loop" -> (MaxIter - iter) * round + 2
          [] pc = "dk_update" ->
                (MaxIter - iter - 1) * round + (Len(roots) - idx) + 3
          [] pc = "dk_check" -> (MaxIter - iter - 1) * round + 3
          [] pc = "dk_return" -> 1
          [] OTHER -> 0

\* C4: on every vector of length L >= 4 with a non-zero leading coefficient
\* FindRoots terminates after at most 1000 rounds (no round runs after the
\* 1000th, and every step before the return leaves fewer steps to take),
\* returns no error, converged or not, and returns exactly L - 1 candidate
\* roots.
C4_TerminatesWithAllRoots ==
    /\ [](/\ iter <= MaxIter
          /\ pc \in {"dk_update", "dk_check"} => iter < MaxIter
          /\ StepsLeft >= 0
          /\ ~RootsReturned =>
                pc \in {"call", "dk_loop", "dk_update", "dk_check", "dk_return"}
          /\ (/\ RootsReturned
               /\ Len(coefficients) >= 4
               /\ coefficients[Len(coefficients)] # 0) =>
                  /\ rootsRes.err = NoError
                  /\ Len(rootsRes.roots) = Len(coefficients) - 1)
    /\ [][~RootsReturned => StepsLeft' < StepsLeft]_vars

\* the iteration ran its 1000 rounds without converging and returned
C4_Witness ==
    /\ RootsReturned
    /\ Len(coefficients) >= 4
    /\ coefficients[Len(coefficients)] # 0
    /\ iter = MaxIter
    /\ ~converged
    /\ rootsRes.err = NoError
    /\ Len(rootsRes.roots) = Len(coefficients) - 1

\* the candidate set with every candidate updated from the set rs
NextCandidates(rs) == [k \in 1..Len(rs) |-> NewCandidate(coefficients, rs, k)]

\* C5: in a round the new value of each candidate is computed from the
\* candidate set of the previous round only: while the round computes its
\* updates the set is not changed, each update is r_i - P(r_i) / prod(r_i -
\* r_j) over that set, and the set is replaced as a whole, by the updates of
\* all candidates, only after all of them are computed.
C5_SimultaneousUpdate ==
    [][ /\ pc = "dk_update" =>
              /\ roots' = roots
              /\ updated'[idx + 1] = NewCandidate(coefficients, roots, idx + 1)
        /\ (pc \in {"dk_loop", "dk_update", "dk_check"} /\ roots' # roots) =>
              /\ pc = "dk_check"
              /\ updated = NextCandidates(roots)
              /\ roots' = updated
      ]_vars

\* a later round whose updates, all computed from the previous set, move
\* every candidate
C5_Witness ==
    /\ pc = "dk_check"
    /\ iter >= 2
    /\ updated = NextCandidates(roots)
    /\ \A k \in 1..Len(roots) : updated[k] # roots[k] /\ updated[k] # CNaN

\* the squared distance candidate k moved in the round, in units
MovedSquared(k) ==
    (updated[k].re - roots[k].re) * (updated[k].re - roots[k].re)
    + (updated[k].im - roots[k].im) * (updated[k].im - roots[k].im)
\* the distance is a number (neither value is NaN)
MoveIsNumber(k) == updated[k] # CNaN /\ roots[k] # CNaN
MovedLessThanTolerance(k) ==
    MoveIsNumber(k) /\ MovedSquared(k) < Tolerance * Tolerance
MovedMoreThanTolerance(k) ==
    MoveIsNumber(k) /\ MovedSquared(k) > Tolerance * Tolerance

StopsEarly == pc = "dk_check" /\ pc' = "dk_return"

\* C6 as stated: the iteration stops early exactly in the first round in
\* which every candidate moves by less than 1e-10; in a round in which some
\* candidate moves by 1e-10 or more it goes on to the next round.
C6_AsStated ==
    [][ pc = "dk_check" =>
            (StopsEarly <=> \A k \in 1..Len(roots) : MovedLessThanTolerance(k))
      ]_vars

\* C6 amended: the iteration stops early exactly in the first round in which
\* no candidate moves by more than 1e-10 (a move of exactly 1e-10, or one
\* whose distance is NaN, does not keep it going); in a round in which some
\* candidate moves by more than 1e-10 it goes on to the next round.
C6_StopsUnlessMovedMore ==
    [][ pc = "dk_check" =>
            /\ StopsEarly <=> ~\E k \in 1..Len(roots) : MovedMoreThanTolerance(k)
            /\ ~StopsEarly => roots' = updated /\ iter' = iter + 1 /\ pc' = "dk_loop"
      ]_vars

\* the iteration stopped early in a round in which a candidate moved by
\* exactly the threshold
C6_Witness ==
    /\ pc = "dk_return"
    /\ converged
    /\ iter < MaxIter
    /\ \A k \in 1..Len(roots) : MoveIsNumber(k)
    /\ \E k \in 1..Len(roots) : MovedSquared(k) = Tolerance * Tolerance

(***************************************************************************)
(* Interpolate                                                             *)
(*                                                                         *)
(* The float64 values of Interpolate are modelled by exact integers and    *)
(* fractions of any magnitude.  An integer is the sequence of its digits   *)
(* in base Base, least significant first, every digit in                   *)
(* -Base/2 .. Base/2 - 1 and the top digit not 0: the representation is    *)
(* unique and the sign of a number is the sign of its top digit.           *)
(***************************************************************************)
Base == Pow10(4)
Half == Base \div 2

BDigitOf(v) == ((v + Half) % Base) - Half

RECURSIVE Carry(_, _, _)
Carry(l, k, c) ==
    IF k > Len(l)
    THEN IF c = 0 THEN <<>> ELSE Carry(<<c>>, 1, 0)
    ELSE LET v == l[k] + c
             d == BDigitOf(v)
         IN  <<d>> \o Carry(l, k + 1, (v - d) \div Base)

RECURSIVE Trim(_)
Trim(l) ==
    IF l # <<>> /\ l[Len(l)] = 0 THEN Trim(SubSeq(l, 1, Len(l) - 1)) ELSE l

Norm(l) == Trim(Carry(l, 1, 0))

BInt(n) == Norm(<<n>>)
BDigit(a, k) == IF k <= Len(a) THEN a[k] ELSE 0
BAdd(a, b) ==
    Norm([k \in 1..Max(Len(a), Len(b)) |-> BDigit(a, k) + BDigit(b, k)])
BNeg(a) == Norm([k \in 1..Len(a) |-> 0 - a[k]])
BSub(a, b) == BAdd(a, BNeg(b))

\* the digit k of a product before the carries: sum of a[i] * b[k + 1 - i]
RECURSIVE Conv(_, _, _, _)
Conv(a, b, k, i) ==
    IF i > Len(a)
    THEN 0
    ELSE (IF k + 1 - i \in 1..Len(b) THEN a[i] * b[k + 1 - i] ELSE 0)
         + Conv(a, b, k, i + 1)

BMul(a, b) ==
    IF a = <<>> \/ b = <<>>
    THEN <<>>
    ELSE Norm([k \in 1..(Len(a) + Len(b) - 1) |-> Conv(a, b, k, 1)])

BSign(a) == IF a = <<>> THEN 0 ELSE Sgn(a[Len(a)])
BAbs(a) == IF BSign(a) < 0 THEN BNeg(a) ELSE a
BGt(a, b) == BSign(BSub(a, b)) > 0
BMax(a, b) == IF BGt(a, b) THEN a ELSE b

\* math.Pow(x, float64(j)) for an integer j >= 0; math.Pow(x, 0) is 1
RECURSIVE BPow(_, _)
BPow(x, j) == IF j = 0 THEN BInt(1) ELSE BMul(x, BPow(x, j - 1))

BPow10(n) == BPow(BInt(10), n)

\* a fraction num/den of integers, den # 0
Frac(n, d) == [num |-> n, den |-> d]
FInt(a) == Frac(a, BInt(1))
FAdd(p, q) ==
    Frac(BAdd(BMul(p.num, q.den), BMul(q.num, p.den)), BMul(p.den, q.den))
FMul(p, q) == Frac(BMul(p.num, q.num), BMul(p.den, q.den))
FEq(p, q) == BMul(p.num, q.den) = BMul(q.num, p.den)

\* the matrix v of Interpolate: v[i][j] = x_i^j (rows and columns from 1)
Vandermonde(pts) ==
    [i \in 1..Len(pts) |-> [j \in 1..Len(pts) |-> BPow(pts[i][1], j - 1)]]

\* the vector b of Interpolate: b[i] = y_i
RightHandSide(pts) == [i \in 1..Len(pts) |-> pts[i][2]]

\* the matrix without row r and column c
Minor(m, r, c) ==
    [i \in 1..(Len(m) - 1) |->
        [j \in 1..(Len(m) - 1) |->
            m[IF i < r THEN i ELSE i + 1][IF j < c THEN j ELSE j + 1]]]

RECURSIVE BSum(_, _)
BSum(s, k) == IF k = 0 THEN <<>> ELSE BAdd(BSum(s, k - 1), s[k])

\* the determinant, by expansion along the first row
RECURSIVE Det(_)
Det(m) ==
    IF m = <<>>
    THEN BInt(1)
    ELSE BSum([j \in 1..Len(m) |->
                  LET t == BMul(m[1][j], Det(Minor(m, 1, j)))
                  IN  IF j % 2 = 1 THEN t ELSE BNeg(t)],
              Len(m))

Cofactor(m, i, j) ==
    LET t == Det(Minor(m, i, j))
    IN  IF (i + j) % 2 = 0 THEN t ELSE BNeg(t)

\* the inverse of m is Adjugate(m) / Det(m)
Adjugate(m) == [i \in 1..Len(m) |-> [j \in 1..Len(m) |-> Cofactor(m, j, i)]]

RECURSIVE BMaxOf(_, _)
BMaxOf(s, k) == IF k = 0 THEN <<>> ELSE BMax(BMaxOf(s, k - 1), s[k])

\* the largest sum of the absolute values of a row
MaxRowSum(m) ==
    BMaxOf([i \in 1..Len(m) |->
               BSum([j \in 1..Len(m) |-> BAbs(m[i][j])], Len(m))],
           Len(m))

\* the condition number above which the solver reports the matrix as
\* singular or near-singular: 1e16
ConditionTolerance == BPow10(16)

\* the condition number of m exceeds ConditionTolerance, or m is singular
NearSingular(m) ==
    LET d == Det(m)
    IN  \/ BSign(d) = 0
        \/ BGt(BMul(MaxRowSum(m), MaxRowSum(Adjugate(m))),
               BMul(ConditionTolerance, BAbs(d)))

ReplaceColumn(m, c, b) ==
    [i \in 1..Len(m) |-> [j \in 1..Len(m) |-> IF j = c THEN b[i] ELSE m[i][j]]]

\* coeffs.SolveVec(v, b) of gonum's mat package, an LU solve: the solution of
\* v * x = b, and a Condition error when the solver finds v singular or its
\* condition number (here the exact one in the max-row-sum norm, which the
\* solver estimates) above ConditionTolerance
SolveVec(v, b) ==
    IF NearSingular(v)
    THEN [err |-> "matrix singular or near-singular", x |-> Nil]
    ELSE [err |-> NoError,
          x |-> [j \in 1..Len(v) |->
                    Frac(Det(ReplaceColumn(v, j, b)), Det(v))]]

\* Interpolate without its test for an empty point list
InterpolateNoEmptyCheck(pts) ==
    LET solved == SolveVec(Vandermonde(pts), RightHandSide(pts))
    IN  IF solved.err # NoError
        THEN [err |-> "failed to solve interpolation", coeffs |-> Nil]
        ELSE [err |-> NoError, coeffs |-> solved.x]

Interpolate(pts) ==
    IF Len(pts) = 0
    THEN [err |-> "no points provided", coeffs |-> Nil]
    ELSE LET solved == SolveVec(Vandermonde(pts), RightHandSide(pts))
         IN  IF solved.err # NoError
             THEN [err |-> "failed to solve interpolation", coeffs |-> Nil]
             ELSE [err |-> NoError, coeffs |-> solved.x]

(***************************************************************************)
(* The specification of a call of Interpolate                              *)
(***************************************************************************)
MaxPoints == 3
MaxX == 1

\* a large abscissa: 1e20
LargeX == BPow10(20)

XValues == {BInt(x) : x \in (0 - 1)..MaxX} \cup {LargeX}
YValues == {BInt(0), BInt(1)}

\* the point sequences of TestInterpolate
TestPoints ==
    { << <<BInt(0), BInt(1)>>, <<BInt(1), BInt(3)>> >>,
      << <<BInt(0), BInt(0)>>, <<BInt(1), BInt(1)>>, <<BInt(2), BInt(4)>> >> }

PointSeqs ==
    UNION {[1..n -> XValues \X YValues] : n \in 0..MaxPoints} \cup TestPoints

InitInterp ==
    /\ pc = "call"
    /\ points \in PointSeqs
    /\ interpRes = [err |-> NoError, coeffs |-> Nil]
    /\ IdleParse
    /\ IdlePoly
    /\ IdleDK
    /\ IdleEval
    /\ IdleCmd

CallInterpolate ==
    /\ pc = "call"
    /\ interpRes' = Interpolate(points)
    /\ pc' = "done"
    /\ UNCHANGED <<points, parseVars, polyVars, dkVars, evalVars, args>>

NextInterp == CallInterpolate

SpecInterp == InitInterp /\ [][NextInterp]_vars

(***************************************************************************)
(* Properties of Interpolate                                               *)
(***************************************************************************)
InterpolateReturned == pc = "done"

DistinctX(pts) ==
    \A i, j \in 1..Len(pts) : i # j => pts[i][1] # pts[j][1]

\* the value at x of the polynomial with the coefficient vector c
RECURSIVE PolyValue(_, _, _)
PolyValue(c, x, k) ==
    IF k = 0
    THEN FInt(BInt(0))
    ELSE FAdd(PolyValue(c, x, k - 1), FMul(c[k], FInt(BPow(x, k - 1))))

PassesThrough(c, pts) ==
    \A i \in 1..Len(pts) : FEq(PolyValue(c, pts[i][1], Len(c)), FInt(pts[i][2]))

\* C10 (as stated): for every sequence of n >= 1 points with pairwise
\* distinct x values Interpolate returns no error and a vector c of length
\* n whose polynomial passes through every point; for a single point (x, y)
\* the result is [y].
C10_AsStated ==
    (InterpolateReturned /\ Len(points) >= 1 /\ DistinctX(points)) =>
        /\ interpRes.err = NoError
        /\ Len(interpRes.coeffs) = Len(points)
        /\ PassesThrough(interpRes.coeffs, points)
        /\ Len(points) = 1 => FEq(interpRes.coeffs[1], FInt(points[1][2]))

\* C10 on the systems the solver does not report as near-singular
C10_UnlessNearSingular ==
    (/\ InterpolateReturned
     /\ Len(points) >= 1
     /\ DistinctX(points)
     /\ ~NearSingular(Vandermonde(points))) =>
        /\ interpRes.err = NoError
        /\ Len(interpRes.coeffs) = Len(points)
        /\ PassesThrough(interpRes.coeffs, points)
        /\ Len(points) = 1 => FEq(interpRes.coeffs[1], FInt(points[1][2]))

\* the points (0, 0), (1e20, 1): distinct x values, and an error
C10_NearSingularInput ==
    /\ InterpolateReturned
    /\ points = << <<BInt(0), BInt(0)>>, <<LargeX, BInt(1)>> >>
    /\ interpRes.err # NoError

\* the points of TestInterpolate on y = x^2 give [0, 0, 1]
C10_TestInput ==
    /\ InterpolateReturned
    /\ points = << <<BInt(0), BInt(0)>>, <<BInt(1), BInt(1)>>, <<BInt(2), BInt(4)>> >>
    /\ interpRes.err = NoError
    /\ \A k \in 1..3 :
          FEq(interpRes.coeffs[k], FInt(BInt(IF k = 3 THEN 1 ELSE 0)))

\* C11: Interpolate returns an error and no coefficients on zero points
\* ("no points provided"), and whenever two points share their x value,
\* their y values equal or not, it fails with the solver's singular-system
\* error and returns no coefficients.
C11_DegeneratePointsFail ==
    InterpolateReturned =>
        /\ Len(points) = 0 =>
              /\ interpRes.err = "no points provided"
              /\ interpRes.coeffs = Nil
        /\ (Len(points) >= 1 /\ ~DistinctX(points)) =>
              /\ interpRes.err = "failed to solve interpolation"
              /\ interpRes.coeffs = Nil

\* three points of which the first and the last share x and differ in y
C11_Witness ==
    /\ InterpolateReturned
    /\ Len(points) = 3
    /\ points[1][1] = points[3][1]
    /\ points[1][2] # points[3][2]
    /\ points[2][1] # points[1][1]
    /\ interpRes = [err |-> "failed to solve interpolation", coeffs |-> Nil]

(***************************************************************************)
(* The evaluator: Evaluate and the package-level map variables             *)
(*                                                                         *)
(* A value is a float64: the fraction n/d (d > 0, in lowest terms), +Inf   *)
(* as 1/0 and NaN as 0/0.  The expressions keep every value non-negative   *)
(* and every exponent a natural number.                                    *)
(***************************************************************************)
RECURSIVE GCD(_, _)
GCD(a, b) == IF b = 0 THEN a ELSE GCD(b, a % b)

Val(n, d) ==
    IF d = 0 THEN [n |-> IF n = 0 THEN 0 ELSE 1, d |-> 0]
    ELSE [n |-> n \div GCD(n, d), d |-> d \div GCD(n, d)]
VInt(n) == Val(n, 1)
VInf == Val(1, 0)
VNaN == Val(0, 0)
IsInf(v) == v = VInf

\* left + right
VAdd(x, y) ==
    IF x = VNaN \/ y = VNaN THEN VNaN
    ELSE IF x = VInf \/ y = VInf THEN VInf
    ELSE Val(x.n * y.d + y.n * x.d, x.d * y.d)
\* left * right
VMul(x, y) ==
    IF x = VNaN \/ y = VNaN THEN VNaN
    ELSE IF x = VInf \/ y = VInf
         THEN (IF x.n = 0 \/ y.n = 0 THEN VNaN ELSE VInf)
    ELSE Val(x.n * y.n, x.d * y.d)
\* left / right: a division by zero is +Inf, 0/0 is NaN
VDiv(x, y) ==
    IF x = VNaN \/ y = VNaN THEN VNaN
    ELSE IF y = VInf THEN (IF x = VInf THEN VNaN ELSE VInt(0))
    ELSE IF x = VInf THEN VInf
    ELSE Val(x.n * y.d, x.d * y.n)
\* math.Pow(left, right) for a natural number right
RECURSIVE VPow(_, _)
VPow(x, k) == IF k = 0 THEN VInt(1) ELSE VMul(x, VPow(x, k - 1))
\* the bitwise exclusive or of two natural numbers
RECURSIVE Xor(_, _)
Xor(a, b) ==
    IF a = 0 THEN b
    ELSE IF b = 0 THEN a
    ELSE 2 * Xor(a \div 2, b \div 2) + (IF a % 2 = b % 2 THEN 0 ELSE 1)
\* float64(int64(left) ^ int64(right))
VXor(x, y) == VInt(Xor(x.n \div x.d, y.n \div y.d))

(***************************************************************************)
(* govaluate, as far as Evaluate's inputs here use it: numeric literals,   *)
(* variables and the binary operators ^ (bitwise exclusive or), +, *, /    *)
(* and ** (exponentiation), in rising precedence, left-associative         *)
(***************************************************************************)
Letters == {"A", "B", "C"}
Operators == {"^", "+", "*", "/", "**"}

RECURSIVE RunOf(_, _, _)
\* the end of the run of characters of the set S that starts at p
RunOf(s, p, S) == IF p <= Len(s) /\ s[p] \in S THEN RunOf(s, p + 1, S) ELSE p

RECURSIVE Tokens(_, _)
\* the tokens of s from position p; an unknown character gives an "error"
\* token
Tokens(s, p) ==
    IF p > Len(s) THEN <<>>
    ELSE IF s[p] = " " THEN Tokens(s, p + 1)
    ELSE IF s[p] \in Digits
    THEN LET e == RunOf(s, p, Digits)
         IN  <<[t |-> "num", text |-> SubSeq(s, p, e - 1)]>> \o Tokens(s, e)
    ELSE IF s[p] \in Letters
    THEN LET e == RunOf(s, p, Letters)
         IN  <<[t |-> "var", text |-> SubSeq(s, p, e - 1)]>> \o Tokens(s, e)
    ELSE IF s[p] = "*" /\ p < Len(s) /\ s[p + 1] = "*"
    THEN <<[t |-> "op", text |-> <<"**">>]>> \o Tokens(s, p + 2)
    ELSE IF s[p] \in Operators
    THEN <<[t |-> "op", text |-> <<s[p]>>]>> \o Tokens(s, p + 1)
    ELSE <<[t |-> "error", text |-> <<s[p]>>]>> \o Tokens(s, p + 1)

\* NewEvaluableExpressionWithFunctions succeeds: operands and binary
\* operators alternate, from an operand to an operand
WellFormed(toks) ==
    /\ Len(toks) % 2 = 1
    /\ \A k \in 1..Len(toks) :
          IF k % 2 = 1 THEN toks[k].t \in {"num", "var"} ELSE toks[k].t = "op"

Precedence(op) ==
    CASE op = "^" -> 1 [] op = "+" -> 2 [] op = "*" -> 3 [] op = "/" -> 3
      [] op = "**" -> 4

Apply(op, x, y) ==
    CASE op = "^" -> VXor(x, y)
      [] op = "+" -> VAdd(x, y)
      [] op = "*" -> VMul(x, y)
      [] op = "/" -> VDiv(x, y)
      [] op = "**" -> VPow(x, y.n)

RECURSIVE EvalTokens(_, _)
\* expr.Evaluate(parameters) on a well-formed expression: [ok, val]; a
\* variable that is not in the map is an error
EvalTokens(toks, parameters) ==
    IF Len(toks) = 1
    THEN IF toks[1].t = "num"
         THEN [ok |-> TRUE, val |-> VInt(DigitsValue(toks[1].text))]
         ELSE IF toks[1].text \in DOMAIN parameters
         THEN [ok |-> TRUE, val |-> parameters[toks[1].text]]
         ELSE [ok |-> FALSE, val |-> VNaN]
    ELSE LET ops == {k \in 1..Len(toks) : k % 2 = 0}
             low == CHOOSE k \in ops :
                       \A j \in ops :
                          \/ Precedence(toks[j].text[1]) > Precedence(toks[k].text[1])
                          \/ /\ Precedence(toks[j].text[1]) = Precedence(toks[k].text[1])
                             /\ j <= k
             left == EvalTokens(SubSeq(toks, 1, low - 1), parameters)
             right == EvalTokens(SubSeq(toks, low + 1, Len(toks)), parameters)
         IN  IF left.ok /\ right.ok
             THEN [ok |-> TRUE, val |-> Apply(toks[low].text[1], left.val, right.val)]
             ELSE [ok |-> FALSE, val |-> VNaN]

(***************************************************************************)
(* Evaluate                                                                *)
(***************************************************************************)
RECURSIVE TrimLeft(_)
TrimLeft(s) == IF s # <<>> /\ s[1] = " " THEN TrimLeft(Tail(s)) ELSE s
RECURSIVE TrimRight(_)
TrimRight(s) ==
    IF s # <<>> /\ s[Len(s)] = " " THEN TrimRight(SubSeq(s, 1, Len(s) - 1)) ELSE s
\* strings.TrimSpace
TrimSpace(s) == TrimRight(TrimLeft(s))

RECURSIVE Split(_, _)
\* strings.Split(s, sep) for a separator of one character
Split(s, sep) ==
    LET k == IndexOf(s, sep)
    IN  IF k = 0 THEN <<s>>
        ELSE <<SubSeq(s, 1, k - 1)>> \o Split(SubSeq(s, k + 1, Len(s)), sep)

\* strings.Contains(s, c) for one character
Contains(s, c) == IndexOf(s, c) # 0

\* strings.SplitN(stmt, "=", 2) on a statement that contains "="
SplitAssignment(stmt) ==
    LET k == IndexOf(stmt, "=")
    IN  <<SubSeq(stmt, 1, k - 1), SubSeq(stmt, k + 1, Len(stmt))>>

RECURSIVE ReplaceCaret(_)
\* strings.ReplaceAll(stmt, "^", "**")
ReplaceCaret(s) ==
    IF s = <<>> THEN <<>>
    ELSE (IF Head(s) = "^" THEN <<"*", "*">> ELSE <<Head(s)>>)
         \o ReplaceCaret(Tail(s))

\* the map with variables[varName] = val
Store(m, varName, val) ==
    [k \in DOMAIN m \cup {varName} |-> IF k = varName THEN val ELSE m[k]]

\* the assignment branch of the loop body: [err, variables]
AssignValue(stmt, m) ==
    LET parts == SplitAssignment(stmt)
        varName == TrimSpace(parts[1])
        varValue == TrimSpace(parts[2])
        toks == Tokens(varValue, 1)
    IN  IF ~WellFormed(toks)
        THEN [err |-> "invalid value expression", variables |-> m]
        ELSE LET val == EvalTokens(toks, m)
             IN  IF ~val.ok
                 THEN [err |-> "failed to evaluate value expression",
                       variables |-> m]
                 ELSE [err |-> NoError, variables |-> Store(m, varName, val.val)]

\* the expression branch of the loop body: [err, result]
EvaluateExpression(stmt, m) ==
    LET replaced == ReplaceCaret(stmt)
        toks == Tokens(replaced, 1)
    IN  IF ~WellFormed(toks)
        THEN [err |-> "invalid expression", result |-> Nil]
        ELSE LET val == EvalTokens(toks, m)
             IN  IF ~val.ok
                 THEN [err |-> "failed to evaluate expression", result |-> Nil]
                 ELSE IF Contains(replaced, "/") /\ IsInf(val.val)
                 THEN [err |-> "division by zero", result |-> Nil]
                 ELSE [err |-> NoError, result |-> val.val]

(***************************************************************************)
(* The specification of a sequence of calls of Evaluate                    *)
(***************************************************************************)
MaxStatements == 2
MaxCalls == 2

\* the statements the inputs are built from
EvalStatements ==
    { <<"A", " ", "=", " ", "2">>,
      <<"A", " ", "=", " ", "2", " ", "^", " ", "3">>,
      <<"B", " ", "=", " ", "A", " ", "+", " ", "3">>,
      <<"A">>,
      <<"2", " ", "^", " ", "3">>,
      <<"A", " ", "=", " ", "2", " ", "+">>,
      <<"2", " ", "+", " ", "*", " ", "3">>,
      <<"A", " ", "/", " ", "0">>,
      <<" ">> }

RECURSIVE JoinWith(_, _)
\* strings.Join(parts, sep)
JoinWith(parts, sep) ==
    IF Len(parts) = 1 THEN parts[1]
    ELSE parts[1] \o sep \o JoinWith(Tail(parts), sep)

EvalInputs ==
    {<<>>}
    \cup {JoinWith(ss, <<";", " ">>) :
            ss \in UNION {[1..n -> EvalStatements] : n \in 1..MaxStatements}}

InitEval ==
    /\ pc = "eval_idle"
    /\ IdleEval
    /\ IdleParse
    /\ IdlePoly
    /\ IdleDK
    /\ IdleInterp
    /\ IdleCmd

\* a call of Evaluate up to its loop
CallEvaluate ==
    /\ pc = "eval_idle"
    /\ calls < MaxCalls
    /\ \E e \in EvalInputs :
          /\ expression' = e
          /\ IF TrimSpace(e) = <<>>
             THEN /\ evalRes' = [result |-> Nil, err |-> "empty expression"]
                  /\ statements' = <<>>
                  /\ stmtIdx' = 0
                  /\ calls' = calls + 1
                  /\ pc' = "eval_idle"
             ELSE /\ statements' = Split(e, ";")
                  /\ stmtIdx' = 1
                  /\ pc' = "eval_loop"
                  /\ UNCHANGED <<evalRes, calls>>
    /\ result' = Nil
    /\ UNCHANGED <<variables, parseVars, polyVars, dkVars, interpVars, args>>

\* one round of the loop, a failing statement discarding the variables
EvalStatementDiscarding ==
    /\ pc = "eval_loop"
    /\ stmtIdx <= Len(statements)
    /\ LET stmt == TrimSpace(statements[stmtIdx])
       IN  IF stmt = <<>>
           THEN /\ stmtIdx' = stmtIdx + 1
                /\ UNCHANGED <<pc, variables, result, evalRes, calls>>
           ELSE IF Contains(stmt, "=")
           THEN LET assigned == AssignValue(stmt, variables)
                IN  IF assigned.err # NoError
                    THEN /\ evalRes' = [result |-> Nil, err |-> assigned.err]
                         /\ calls' = calls + 1
                         /\ pc' = "eval_idle"
                         /\ variables' = <<>>
                         /\ UNCHANGED <<result, stmtIdx>>
                    ELSE /\ variables' = assigned.variables
                         /\ stmtIdx' = stmtIdx + 1
                         /\ UNCHANGED <<pc, result, evalRes, calls>>
           ELSE LET evaluated == EvaluateExpression(stmt, variables)
                IN  IF evaluated.err # NoError
                    THEN /\ evalRes' = [result |-> Nil, err |-> evaluated.err]
                         /\ calls' = calls + 1
                         /\ pc' = "eval_idle"
                         /\ result' = Nil
                         /\ variables' = <<>>
                         /\ UNCHANGED stmtIdx
                    ELSE /\ result' = evaluated.result
                         /\ stmtIdx' = stmtIdx + 1
                         /\ UNCHANGED <<pc, variables, evalRes, calls>>
    /\ UNCHANGED <<expression, statements, parseVars, polyVars, dkVars, interpVars, args>>

\* one round of the loop over the statements
EvalStatement ==
    /\ pc = "eval_loop"
    /\ stmtIdx <= Len(statements)
    /\ LET stmt == TrimSpace(statements[stmtIdx])
       IN  IF stmt = <<>>
           THEN /\ stmtIdx' = stmtIdx + 1
                /\ UNCHANGED <<pc, variables, result, evalRes, calls>>
           ELSE IF Contains(stmt, "=")
           THEN LET assigned == AssignValue(stmt, variables)
                IN  IF assigned.err # NoError
                    THEN /\ evalRes' = [result |-> Nil, err |-> assigned.err]
                         /\ calls' = calls + 1
                         /\ pc' = "eval_idle"
                         /\ UNCHANGED <<variables, result, stmtIdx>>
                    ELSE /\ variables' = assigned.variables
                         /\ stmtIdx' = stmtIdx + 1
                         /\ UNCHANGED <<pc, result, evalRes, calls>>
           ELSE LET evaluated == EvaluateExpression(stmt, variables)
                IN  IF evaluated.err # NoError
                    THEN /\ evalRes' = [result |-> Nil, err |-> evaluated.err]
                         /\ calls' = calls + 1
                         /\ pc' = "eval_idle"
                         /\ result' = Nil
                         /\ UNCHANGED <<variables, stmtIdx>>
                    ELSE /\ result' = evaluated.result
                         /\ stmtIdx' = stmtIdx + 1
                         /\ UNCHANGED <<pc, variables, evalRes, calls>>
    /\ UNCHANGED <<expression, statements, parseVars, polyVars, dkVars, interpVars, args>>

\* return result, nil
EvalReturn ==
    /\ pc = "eval_loop"
    /\ stmtIdx > Len(statements)
    /\ evalRes' = [result |-> result, err |-> NoError]
    /\ calls' = calls + 1
    /\ pc' = "eval_idle"
    /\ UNCHANGED <<variables, expression, statements, stmtIdx, result,
                   parseVars, polyVars, dkVars, interpVars, args>>

NextEval == CallEvaluate \/ EvalStatement \/ EvalReturn

SpecEval == InitEval /\ [][NextEval]_vars

(***************************************************************************)
(* Properties of Evaluate                                                  *)
(***************************************************************************)
\* the loop is at a statement
AtStatement == pc = "eval_loop" /\ stmtIdx <= Len(statements)
CurrentStatement == TrimSpace(statements[stmtIdx])
\* the current statement is an assignment N = e
AtAssignment == AtStatement /\ Contains(CurrentStatement, "=")
AssignedName == TrimSpace(SplitAssignment(CurrentStatement)[1])
AssignedExpression == TrimSpace(SplitAssignment(CurrentStatement)[2])
\* the current statement is the expression that consists of one name
AtReference ==
    /\ AtStatement
    /\ CurrentStatement # <<>>
    /\ \A k \in 1..Len(CurrentStatement) : CurrentStatement[k] \in Letters
\* the step is the return of an error
ReturnsError == pc = "eval_loop" /\ pc' = "eval_idle" /\ evalRes'.err # NoError
\* the step evaluates the current statement and goes on to the next
StatementSucceeds == AtStatement /\ pc' = "eval_loop" /\ stmtIdx' = stmtIdx + 1

\* the bindings other than that of name are the same in both maps
SameExcept(m1, m2, name) ==
    /\ DOMAIN m2 = DOMAIN m1 \cup {name}
    /\ \A k \in DOMAIN m1 \ {name} : m2[k] = m1[k]

\* the variable map changes only in a successful assignment, which binds the
\* assigned name and nothing else, and an expression that is a name
\* evaluates to the name's binding, or to an error when it has none
BindingsKept ==
    /\ (AtAssignment /\ StatementSucceeds) =>
          SameExcept(variables, variables', AssignedName)
    /\ ~(AtAssignment /\ StatementSucceeds) => variables' = variables
    /\ AtReference =>
          IF CurrentStatement \in DOMAIN variables
          THEN StatementSucceeds /\ result' = variables[CurrentStatement]
          ELSE ReturnsError

\* C12 (as stated): after a successful statement N = e every later
\* expression that references N, in the same call or a later one, is
\* evaluated with N bound to the value of e (the value the expression e
\* evaluates to), until N is assigned again; a reference to a name that was
\* never assigned returns an error.
C12_AsStated ==
    [][ /\ BindingsKept
        /\ (AtAssignment /\ StatementSucceeds) =>
              variables'[AssignedName]
                = EvaluateExpression(AssignedExpression, variables).result
      ]_vars

\* C12 with the value of e taken as the assignment computes it (^ not
\* replaced): the binding of N is that value until N is assigned again
C12_BindingPersists ==
    [][ /\ BindingsKept
        /\ (AtAssignment /\ StatementSucceeds) =>
              variables'[AssignedName]
                = EvalTokens(Tokens(AssignedExpression, 1), variables).val
      ]_vars

\* a call returned
Returned == pc = "eval_idle" /\ calls > 0

\* C14 (as stated): ^ is exponentiation wherever it appears in a statement:
\* "2 ^ 3" evaluates to 8 as a plain expression and as the value expression
\* of an assignment, so that "A = 2 ^ 3; A" evaluates to 8.
C14_AsStated ==
    Returned =>
        /\ expression = <<"2", " ", "^", " ", "3">> =>
              evalRes = [result |-> VInt(8), err |-> NoError]
        /\ expression = <<"A", " ", "=", " ", "2", " ", "^", " ", "3", ";", " ", "A">> =>
              evalRes = [result |-> VInt(8), err |-> NoError]

\* C14 for the statements that are not assignments: "2 ^ 3" evaluates to 8
C14_PlainExpression ==
    (Returned /\ expression = <<"2", " ", "^", " ", "3">>) =>
        evalRes = [result |-> VInt(8), err |-> NoError]

\* the value expression of an assignment is evaluated with ^ as the bitwise
\* exclusive or: "A = 2 ^ 3; A" evaluates to 1
C14_ExclusiveOr ==
    /\ Returned
    /\ expression = <<"A", " ", "=", " ", "2", " ", "^", " ", "3", ";", " ", "A">>
    /\ evalRes = [result |-> VInt(1), err |-> NoError]

\* C19: when a call of Evaluate fails at statement k it returns an error and
\* a nil result, the failing statement leaves the variable map unchanged, the
\* assignments of the statements before k stay in the map (no step but a
\* successful assignment changes the map, and that one only binds its name),
\* also across the start of later calls, and no statement after k is
\* evaluated (the loop is left at k).
C19_NoRollback ==
    [][ /\ ReturnsError =>
              /\ evalRes'.result = Nil
              /\ variables' = variables
              /\ stmtIdx' = stmtIdx
              /\ statements' = statements
              /\ calls' = calls + 1
        /\ (pc = "eval_idle" /\ pc' = "eval_loop") =>
              variables' = variables /\ stmtIdx' = 1
        /\ variables' # variables =>
              /\ AtAssignment
              /\ StatementSucceeds
              /\ SameExcept(variables, variables', AssignedName)
      ]_vars

\* the first call failed at its second statement and the assignment of its
\* first statement is in the map
C19_Witness ==
    /\ Returned
    /\ calls = 1
    /\ evalRes.err # NoError
    /\ evalRes.result = Nil
    /\ stmtIdx = 2
    /\ Len(statements) = 2
    /\ variables = Store(<<>>, <<"A">>, VInt(2))

\* a later call reads the binding a failed call left behind
C19_VisibleLater ==
    /\ Returned
    /\ calls = 2
    /\ expression = <<"A">>
    /\ evalRes = [result |-> VInt(2), err |-> NoError]

(***************************************************************************)
(* The commands polynomial roots and polynomial factorize (cmd/polynomial) *)
(***************************************************************************)
\* most command-line arguments of the exhaustively enumerated invocations
MaxArgs == 3

\* the arguments the invocations are built of: whole numbers and terms
ArgWords ==
    { <<"1">>, <<"-", "3">>, <<"2">>, <<"x">>, <<"-", "3", "x">>, <<"+", "2">> }

\* further invocations: the polynomial as one argument and split into terms
LongArgs ==
    { << <<"x", "^", "2", " ", "-", " ", "3", "x", " ", "+", " ", "2">> >>,
      << <<"x", "^", "2">>, <<"-", "3", "x">>, <<"+", "2">> >>,
      << <<"x", "^", "3">>, <<"-", "1">> >>,
      << <<"2", "x", "^", "3">>, <<"-">>, <<"1">> >>,
      << <<"a", "b", "c">> >> }

\* Args: cobra.MinimumNArgs(1)
ArgLists == (UNION {[1..n -> ArgWords] : n \in 1..MaxArgs}) \cup LongArgs

\* the parsed coefficients as numbers; the arguments carry whole numbers
\* only, so every parsed coefficient is a whole number of units
Whole(cs) == [k \in 1..Len(cs) |-> cs[k] \div Scale]

InitCmd ==
    /\ pc \in {"roots_cmd", "factorize_cmd"}
    /\ args \in ArgLists
    /\ IdleParse
    /\ IdlePoly
    /\ IdleDK
    /\ IdleInterp
    /\ IdleEval

\* rootsCmd.Run up to its call of FindRoots
RootsCmd ==
    /\ pc = "roots_cmd"
    /\ polyStr' = Join(args)
    /\ parseRes' = ParsePolynomial(polyStr')
    /\ IF parseRes'.err # NoError
       THEN /\ pc' = "cmd_done"
            /\ UNCHANGED coefficients
       ELSE /\ coefficients' = Whole(parseRes'.coeffs)
            /\ pc' = "call"
    /\ UNCHANGED <<rootsRes, factRes, dkVars, interpVars, evalVars, args>>

\* factorizeCmd.Run
FactorizeCmd ==
    /\ pc = "factorize_cmd"
    /\ polyStr' = Join(args)
    /\ parseRes' = ParsePolynomial(polyStr')
    /\ IF parseRes'.err # NoError
       THEN UNCHANGED <<coefficients, factRes>>
       ELSE /\ coefficients' = Whole(parseRes'.coeffs)
            /\ factRes' = Factorize(coefficients')
    /\ pc' = "cmd_done"
    /\ UNCHANGED <<rootsRes, dkVars, interpVars, evalVars, args>>

\* the commands; rootsCmd goes on with FindRoots and prints what it returns
NextCmd ==
    \/ RootsCmd
    \/ FactorizeCmd
    \/ CallFindRoots
    \/ DKLoop
    \/ DKUpdate
    \/ DKCheck
    \/ DKReturn

SpecCmd == InitCmd /\ [][NextCmd]_vars

\* every parsed coefficient of the invocations is a whole number
WholeCoefficients ==
    parseRes.coeffs # Nil =>
        \A k \in 1..Len(parseRes.coeffs) : parseRes.coeffs[k] % Scale = 0

\* the arguments 1 -3 2
CoefficientArgs == << <<"1">>, <<"-", "3">>, <<"2">> >>

\* C13: invoked with the arguments 1 -3 2, polynomial roots and polynomial
\* factorize work on the degree-2 polynomial whose coefficients are 1, -3
\* and 2, and return its two roots, its two factors.
C13_AsStated ==
    args = CoefficientArgs =>
        /\ pc \in {"call", "roots_done", "cmd_done"} =>
              /\ parseRes.err = NoError
              /\ coefficients \in {<<1, 0 - 3, 2>>, <<2, 0 - 3, 1>>}
        /\ pc = "roots_done" =>
              rootsRes.err = NoError /\ Len(rootsRes.roots) = 2
        /\ pc = "cmd_done" =>
              factRes.err = NoError /\ Len(factRes.factors) = 2

\* what the commands do with the arguments 1 -3 2: they parse "1-32", the
\* constant -31
C13_JoinedAndParsed ==
    (args = CoefficientArgs /\ pc \in {"call", "roots_done", "cmd_done"}) =>
        /\ polyStr = <<"1", "-", "3", "2">>
        /\ coefficients = <<0 - 31>>
        /\ pc = "roots_done" => rootsRes = [err |-> NoError, roots |-> Nil]
        /\ pc = "cmd_done" =>
              factRes = [err |-> "unsupported polynomial degree", factors |-> Nil]

C13_RootsOfConstant ==
    /\ args = CoefficientArgs
    /\ pc = "roots_done"
    /\ coefficients = <<0 - 31>>

(***************************************************************************)
(* FindRoots on vectors whose highest-index coefficient is 0, and on the   *)
(* vectors of length 0 and 1                                               *)
(***************************************************************************)
LeadingZero(cs) == Len(cs) >= 2 /\ cs[Len(cs)] = 0

\* C15: for every vector of length L >= 2 whose highest-index coefficient
\* is 0, the vectors of length >= 4 included, FindRoots fails with
\* DegenerateCoefficientError and returns no roots.
C15_AsStated ==
    (RootsReturned /\ LeadingZero(coefficients)) =>
        /\ ErrorKind(rootsRes.err) = "DegenerateCoefficientError"
        /\ rootsRes.roots = Nil

\* what holds of the code: the vectors of length 2 and 3 fail so
C15_ShortVectorsFail ==
    (RootsReturned /\ LeadingZero(coefficients) /\ Len(coefficients) <= 3) =>
        /\ ErrorKind(rootsRes.err) = "DegenerateCoefficientError"
        /\ rootsRes.roots = Nil

\* the vector of "x^3 - x^3 + x" goes through the iteration and comes back
\* with three candidates and no error
C15_IteratedInstead ==
    /\ RootsReturned
    /\ coefficients = <<0, 1, 0, 0>>
    /\ rootsRes.err = NoError
    /\ Len(rootsRes.roots) = 3
    /\ iter > 0

DKSteps == {"dk_loop", "dk_update", "dk_check", "dk_return"}

\* C16: FindRoots fails with EmptyInputError exactly when the vector has
\* length 0; on every vector of length 1 it returns an empty root collection
\* and no error, and it performs no iteration round.
C16_EmptyAndConstant ==
    /\ RootsReturned =>
          (ErrorKind(rootsRes.err) = "EmptyInputError" <=> Len(coefficients) = 0)
    /\ (RootsReturned /\ Len(coefficients) = 1) =>
          rootsRes = [err |-> NoError, roots |-> Nil]
    /\ Len(coefficients) = 1 => (pc \notin DKSteps /\ iter = 0 /\ roots = Nil)

\* FindRoots has returned on a non-zero constant
C16_Witness ==
    /\ RootsReturned
    /\ coefficients = <<0 - 3>>
    /\ rootsRes = [err |-> NoError, roots |-> Nil]
    /\ iter = 0

\* FindRoots has returned on the empty vector
C16_EmptyVector ==
    /\ RootsReturned
    /\ coefficients = <<>>
    /\ rootsRes = [err |-> "no coefficients provided", roots |-> Nil]

(***************************************************************************)
(* ParsePolynomial and whitespace                                          *)
(***************************************************************************)
\* the whitespace characters of the inputs: space, tab, newline
Whitespace == {" ", "\t", "\n"}

\* the input without any of its whitespace characters
RemoveWhitespace(s) == SelectSeq(s, LAMBDA c : c \notin Whitespace)

\* the same coefficient vector, or both an error
SameOutcome(r1, r2) ==
    /\ (r1.err = NoError) <=> (r2.err = NoError)
    /\ r1.coeffs = r2.coeffs

\* C17: an input and the same input without its whitespace characters
\* (spaces, tabs, newlines) have the same outcome: the same coefficient
\* vector, or both a format error.
C17_AsStated ==
    ParseDone =>
        SameOutcome(parseRes, ParsePolynomial(RemoveWhitespace(polyStr)))

\* what holds of the code: the spaces make no difference
C17_SpacesIgnored ==
    ParseDone =>
        SameOutcome(parseRes,
                    ParsePolynomial(SelectSeq(polyStr, LAMBDA c : c # " ")))

\* "x<tab>+1" is rejected, "x+1" is x + 1
C17_TabRejected ==
    /\ ParseDone
    /\ polyStr = <<"x", "\t", "+", "1">>
    /\ parseRes = [err |-> "invalid polynomial format: extra/unmatched text",
                   coeffs |-> Nil]
    /\ ParsePolynomial(<<"x", "+", "1">>) = [err |-> NoError, coeffs |-> <<Scale, Scale>>]

(***************************************************************************)
(* ParsePolynomial and adjacent terms with no sign between them            *)
(***************************************************************************)
\* every matched term after the first starts with a sign
SignedAfterFirst(terms) == \A k \in 2..Len(terms) : terms[k][1] \in Signs

\* C18: an input in which two terms are adjacent with no sign between them
\* ("x^2x", "1.2.3") is rejected with a format error, never accepted as the
\* sum of the two terms.
C18_AsStated ==
    /\ Accepted => SignedAfterFirst(MatchedTerms)
    /\ (ParseDone /\ polyStr \in {<<"x", "^", "2", "x">>, <<"1", ".", "2", ".", "3">>})
          => Rejected

\* "1.2.3" is accepted as 1.2 + .3 and "x^2x" as x^2 + x
C18_UnsignedAccepted ==
    /\ Accepted
    /\ \/ /\ polyStr = <<"1", ".", "2", ".", "3">>
          /\ MatchedTerms = << <<"1", ".", "2">>, <<".", "3">> >>
          /\ parseRes.coeffs = <<(15 * Scale) \div 10>>
       \/ /\ polyStr = <<"x", "^", "2", "x">>
          /\ MatchedTerms = << <<"x", "^", "2">>, <<"x">> >>
          /\ parseRes.coeffs = <<0, Scale, Scale>>

\* what holds of the code: the accepted inputs are the concatenations of
\* matched terms, signed or not
C18_AcceptedAreJoinedTerms ==
    Accepted =>
        /\ MatchedTerms # <<>>
        /\ Join(MatchedTerms) = RemoveSpaces(polyStr)

====
